---- MODULE Spec2Model ----
(***************************************************************************)
(* A model of update_package.py: one run of main(), from the parsed        *)
(* command line to the exit of the process.                                *)
(*                                                                         *)
(* Text is modelled as a sequence of one-character strings, so that the    *)
(* splitting, prefix tests and joins of the program are computed character *)
(* by character.  A path is the sequence of its components (pathlib's      *)
(* parts, the leading "/" left out); every path of a run is absolute.      *)
(* The external tools (docker, scp, ssh) are the environment: what a       *)
(* container prints is fixed at the start of the run, the return code of a *)
(* remote command is chosen when it is issued.  Every external command the *)
(* program issues is appended to the history variable ops.                 *)
(***************************************************************************)
EXTENDS Integers, Sequences, FiniteSets

\* ------------------------------------------------------------ bounds

\* The longest FOLDER list of a command line.
MaxFolders == 2
\* The most lines one container run prints (SpecCollect).
MaxLines == 2
\* The deepest working directory (SpecRoot).
MaxDepth == 3
\* The longest literal --machines value (SpecMachines).
MaxLen == 3

\* ------------------------------------------------------------ optional values

\* An optional argument: argparse leaves None where nothing was given.
None == [given |-> FALSE, value |-> <<>>]
Some(v) == [given |-> TRUE, value |-> v]

\* ------------------------------------------------------------ text

\* The literal the build script announces an artifact with.
PKG_FILE == <<"P", "K", "G", "_", "F", "I", "L", "E", "=">>

\* str.startswith
StartsWith(s, p) == Len(s) >= Len(p) /\ SubSeq(s, 1, Len(p)) = p

\* s[n:]
DropFirst(s, n) == SubSeq(s, n + 1, Len(s))

\* The least element of a non-empty set of positions.
First(positions) == CHOOSE k \in positions : \A j \in positions : k <= j

\* The positions from i on at which s holds one of the characters.
Find(s, chars, i) == {k \in i..Len(s) : s[k] \in chars}

\* str.split(sep) for a one-character sep: the segments between the
\* separators, empty segments kept, scanned left to right from position i.
RECURSIVE SplitFrom(_, _, _, _)
SplitFrom(s, sep, i, acc) ==
    IF Find(s, {sep}, i) = {} THEN Append(acc, SubSeq(s, i, Len(s)))
    ELSE LET k == First(Find(s, {sep}, i))
         IN  SplitFrom(s, sep, k + 1, Append(acc, SubSeq(s, i, k - 1)))

Split(s, sep) == SplitFrom(s, sep, 1, <<>>)

\* str.split(sep, 1)[0]: the text before the first sep, or all of it.
BeforeFirst(s, sep) ==
    IF Find(s, {sep}, 1) = {} THEN s
    ELSE SubSeq(s, 1, First(Find(s, {sep}, 1)) - 1)

\* str.splitlines(): a line ends at "\n", "\r\n" or "\r"; the terminators are
\* dropped and a terminator at the very end opens no further line.
RECURSIVE SplitLinesFrom(_, _, _)
SplitLinesFrom(t, i, acc) ==
    IF i > Len(t) THEN acc
    ELSE IF Find(t, {"\n", "\r"}, i) = {} THEN Append(acc, SubSeq(t, i, Len(t)))
    ELSE LET k == First(Find(t, {"\n", "\r"}, i))
             next == IF t[k] = "\r" /\ k < Len(t) /\ t[k + 1] = "\n" THEN k + 2 ELSE k + 1
         IN  SplitLinesFrom(t, next, Append(acc, SubSeq(t, i, k - 1)))

SplitLines(t) == SplitLinesFrom(t, 1, <<>>)

\* " ".join(names)
RECURSIVE JoinFrom(_, _, _, _)
JoinFrom(names, sep, i, acc) ==
    IF i > Len(names) THEN acc
    ELSE JoinFrom(names, sep, i + 1,
                  IF i = 1 THEN names[i] ELSE acc \o sep \o names[i])

Join(names, sep) == JoinFrom(names, sep, 1, <<>>)

\* str.endswith
EndsWith(s, p) == Len(s) >= Len(p) /\ SubSeq(s, Len(s) - Len(p) + 1, Len(s)) = p

\* ------------------------------------------------------------ paths

\* Whether a component of a path string names something ("" and "." do not).
IsPart(c) == c # <<>> /\ c # <<".">>

\* The components of a path string.
PathParts(s) == SelectSeq(Split(s, "/"), IsPart)

\* pathlib's p / s: an absolute s replaces p, a relative s extends it.
PathJoin(p, s) ==
    IF s # <<>> /\ s[1] = "/" THEN PathParts(s) ELSE p \o PathParts(s)

\* Path.name: the last component, "" for the root.
PathName(p) == IF p = <<>> THEN <<>> ELSE p[Len(p)]

\* Path.parent: the root is its own parent.
Parent(p) == IF p = <<>> THEN p ELSE SubSeq(p, 1, Len(p) - 1)

\* ------------------------------------------------------------ state

VARIABLES
    args,        \* the argparse.Namespace of the run
    fs,          \* the local file system: cwd, the directories holding .git, the folders' files
    docker,      \* what each container run of this run prints and returns
    pc,          \* where the run is
    current,     \* search_repository_root's argument
    repo_root,   \* BaseConfiguration.repository_root
    cfg,         \* the Configuration, once built
    result,      \* build_packages_and_get_paths' result list
    fi,          \* index of the folder being collected
    mi,          \* index of the machine being updated
    pi,          \* index of the package being handled on that machine
    to_install,  \* update_packages' to_install list for that machine
    ops,         \* history: the external commands issued so far, with their return codes
    exit_status  \* the exit status of the process, once pc = "exited"

vars == <<args, fs, docker, pc, current, repo_root, cfg, result, fi, mi, pi,
          to_install, ops, exit_status>>

\* The predefined machine sets.
MACHINE_SETS == [key \in {<<"s", "i", "n", "g", "l", "e">>} |-> << <<"b", "s", "b", "t", "1">> >>]

\* The configuration before it is built.
NoCfg == [machines |-> <<>>, folders |-> <<>>, skip_build |-> FALSE, skip_check |-> FALSE]

\* One external command: op is "build", "check", "copy" or "install"; m and p
\* are the positions of the machine and of the package (the folder for a build)
\* it was issued for; arg is the folder's path, the package name queried, the
\* path copied, or the text after "dpkg --install ".
Op(kind, m, p, machine, arg, rc) ==
    [op |-> kind, mi |-> m, pi |-> p, machine |-> machine, arg |-> arg, rc |-> rc]

\* ------------------------------------------------------------ configuration

\* A faulty variant: the parent is looked at before the directory itself.
SearchParentFirst(f, dir) ==
    IF Parent(dir) = dir THEN [kind |-> "raise", path |-> dir]
    ELSE IF dir \in f.git THEN [kind |-> "return", path |-> dir]
    ELSE [kind |-> "recurse", path |-> Parent(dir)]

\* One call of search_repository_root: return the directory, raise, or recurse
\* into the parent.
SearchRepositoryRoot(f, dir) ==
    IF dir \in f.git THEN [kind |-> "return", path |-> dir]
    ELSE IF Parent(dir) = dir THEN [kind |-> "raise", path |-> dir]
    ELSE [kind |-> "recurse", path |-> Parent(dir)]

\* A faulty variant: the predefined sets are not looked up.
MachineSetSplitOnly(value) == Split(value, ",")

\* MACHINE_SETS.get(value, value.split(","))
MachineSet(value) ==
    IF value \in DOMAIN MACHINE_SETS THEN MACHINE_SETS[value] ELSE Split(value, ",")

\* The machines of the Configuration: each host of the set, prefixed.
ResolveMachines(prefix, value) ==
    [i \in 1..Len(MachineSet(value)) |-> prefix \o MachineSet(value)[i]]

\* A faulty variant: the docker image is not asked for.
MissingMachinesOnly(a) == ~a.machines.given

\* Whether from_args ends the process for a missing mandatory argument.
MissingArgument(a) == ~a.docker_image.given \/ ~a.machines.given

\* A faulty variant: check=True left out.
RaisesNever(rc) == FALSE

\* subprocess.run(..., check=True) raises CalledProcessError.
CheckRaises(rc) == rc # 0

\* The process ends: an uncaught exception and sys.exit(1) both exit with 1.
Exit(status) ==
    /\ pc' = "exited"
    /\ exit_status' = status

\* BaseConfiguration.from_args, up to the repository root: resolve the given
\* one or start the search at the working directory.
FromArgs ==
    /\ pc = "from_args"
    /\ IF args.repository_root.given
       THEN /\ repo_root' = PathJoin(fs.cwd, args.repository_root.value)
            /\ pc' = "validate"
            /\ UNCHANGED current
       ELSE /\ current' = fs.cwd
            /\ pc' = "search"
            /\ UNCHANGED repo_root
    /\ UNCHANGED <<args, fs, docker, cfg, result, fi, mi, pi, to_install, ops, exit_status>>

\* One level of search_repository_root's recursion.
SearchStep ==
    /\ pc = "search"
    /\ LET r == SearchRepositoryRoot(fs, current) IN
       CASE r.kind = "return" ->
              /\ repo_root' = r.path
              /\ pc' = "validate"
              /\ UNCHANGED <<current, exit_status>>
         [] r.kind = "raise" ->
              /\ Exit(1)
              /\ UNCHANGED <<current, repo_root>>
         [] OTHER ->
              /\ current' = r.path
              /\ UNCHANGED <<pc, repo_root, exit_status>>
    /\ UNCHANGED <<args, fs, docker, cfg, result, fi, mi, pi, to_install, ops>>

\* The rest of BaseConfiguration.from_args and Configuration.from_args: the
\* mandatory arguments, the machines, the Configuration; then run() starts.
Validate ==
    /\ pc = "validate"
    /\ IF MissingArgument(args)
       THEN /\ Exit(1)
            /\ UNCHANGED <<cfg, result, fi>>
       ELSE /\ cfg' = [machines |-> ResolveMachines(args.prefix, args.machines.value),
                       folders |-> args.folders,
                       skip_build |-> args.skip_package_build,
                       skip_check |-> args.skip_install_check]
            /\ result' = <<>>
            /\ fi' = 1
            /\ pc' = "collect"
            /\ UNCHANGED exit_status
    /\ UNCHANGED <<args, fs, docker, current, repo_root, mi, pi, to_install, ops>>

\* ------------------------------------------------------------ collecting

\* What subprocess captures of a container run: every line the script and its
\* trace print, each ended by the terminal's line ending.
RECURSIVE StdoutFrom(_, _, _, _)
StdoutFrom(lines, eol, i, acc) ==
    IF i > Len(lines) THEN acc
    ELSE StdoutFrom(lines, eol, i + 1, acc \o lines[i] \o eol)

Stdout(lines, eol) == StdoutFrom(lines, eol, 1, <<>>)

\* A faulty variant: "PKG_FILE=" anywhere in the line.
ContainsPkg(line) ==
    \E k \in 1..Len(line) : SubSeq(line, k, k + Len(PKG_FILE) - 1) = PKG_FILE

\* line.startswith("PKG_FILE=")
IsPkgLine(line) == StartsWith(line, PKG_FILE)

\* get_package_from_stdout: the text after "PKG_FILE=" of every line that
\* starts with it, in the order of the lines.
GetPackageFromStdout(text) ==
    LET hits == SelectSeq(SplitLines(text), IsPkgLine)
    IN  [i \in 1..Len(hits) |-> DropFirst(hits[i], Len(PKG_FILE))]

\* "*.deb" matches a file name.
IsDeb(name) == EndsWith(name, <<".", "d", "e", "b">>)

\* dir_abs.glob("*.deb"): the matching files, in the order the directory
\* yields them.
GlobDeb(dir, listing) ==
    LET hits == SelectSeq(listing, IsDeb)
    IN  [i \in 1..Len(hits) |-> Append(dir, hits[i])]

\* The paths one built folder adds to the result: dir_abs / pkg_file.
BuiltPaths(dir, text) ==
    LET names == GetPackageFromStdout(text)
    IN  [i \in 1..Len(names) |-> PathJoin(dir, names[i])]

\* What update_packages does next for package p of a machine: the loop is
\* over (install_packages), or the condition
\* "cfg.skip_check or is_package_installed(...)" is evaluated left to right.
Stage(pkgs, p, skip_check) ==
    IF p > Len(pkgs) THEN "install"
    ELSE IF skip_check THEN "copy"
    ELSE "check"

\* The folder loop goes on, or it ends and update_packages starts with the
\* first machine.
NextFolder(pkgs) ==
    /\ result' = pkgs
    /\ IF fi < Len(cfg.folders)
       THEN /\ fi' = fi + 1
            /\ UNCHANGED <<pc, mi, pi, to_install>>
       ELSE /\ mi' = 1
            /\ pi' = 1
            /\ to_install' = <<>>
            /\ pc' = Stage(pkgs, 1, cfg.skip_check)
            /\ UNCHANGED fi

\* build_packages_and_get_paths, one folder, building: the container runs; a
\* non-zero status raises, otherwise the announced files are added.
BuildFolder ==
    /\ pc = "collect"
    /\ ~cfg.skip_build
    /\ LET dir == PathJoin(repo_root, cfg.folders[fi])
           run == docker.runs[fi]
       IN  /\ ops' = Append(ops, Op("build", 0, fi, <<>>, dir, run.rc))
           /\ IF CheckRaises(run.rc)
              THEN /\ Exit(1)
                   /\ UNCHANGED <<result, fi, mi, pi, to_install>>
              ELSE /\ NextFolder(result \o BuiltPaths(dir, Stdout(run.lines, docker.eol)))
                   /\ UNCHANGED exit_status
    /\ UNCHANGED <<args, fs, docker, current, repo_root, cfg>>

\* build_packages_and_get_paths, one folder, with --skip-package-build.
GlobFolder ==
    /\ pc = "collect"
    /\ cfg.skip_build
    /\ LET dir == PathJoin(repo_root, cfg.folders[fi])
       IN  NextFolder(result \o GlobDeb(dir, fs.files[cfg.folders[fi]]))
    /\ UNCHANGED <<args, fs, docker, current, repo_root, cfg, ops, exit_status>>

\* ------------------------------------------------------------ updating

\* The return codes of the remote query and of scp / the remote install.
CheckCodes == {-9, 0, 1, 2, 255}
RunCodes == {-9, 0, 1}

\* A faulty variant: the file name is not split.
PackageNameWhole(pkg) == PathName(pkg)

\* pkg.name.split("_", 1)[0]
PackageName(pkg) == BeforeFirst(PathName(pkg), "_")

\* is_package_installed: check_returncode() raises for a code above 1,
\* otherwise the answer is whether the code is 0.
IsPackageInstalled(rc) ==
    IF rc > 1 /\ rc # 0 THEN "raise"
    ELSE IF rc = 0 THEN "yes"
    ELSE "no"

\* The package loop goes on with the next package.
NextPackage ==
    /\ pi' = pi + 1
    /\ pc' = Stage(result, pi + 1, cfg.skip_check)

\* update_packages, the remote query of one package on one machine.
CheckInstalled ==
    /\ pc = "check"
    /\ \E rc \in CheckCodes :
         /\ ops' = Append(ops, Op("check", mi, pi, cfg.machines[mi], PackageName(result[pi]), rc))
         /\ CASE IsPackageInstalled(rc) = "raise" ->
                   /\ Exit(1)
                   /\ UNCHANGED pi
              [] IsPackageInstalled(rc) = "yes" ->
                   /\ pc' = "copy"
                   /\ UNCHANGED <<pi, exit_status>>
              [] OTHER ->
                   /\ NextPackage
                   /\ UNCHANGED exit_status
    /\ UNCHANGED <<args, fs, docker, current, repo_root, cfg, result, fi, mi, to_install>>

\* update_packages, copy_package and to_install.append(pkg.name).
CopyPackage ==
    /\ pc = "copy"
    /\ \E rc \in RunCodes :
         /\ ops' = Append(ops, Op("copy", mi, pi, cfg.machines[mi], result[pi], rc))
         /\ IF CheckRaises(rc)
            THEN /\ Exit(1)
                 /\ UNCHANGED <<pi, to_install>>
            ELSE /\ to_install' = Append(to_install, PathName(result[pi]))
                 /\ NextPackage
                 /\ UNCHANGED exit_status
    /\ UNCHANGED <<args, fs, docker, current, repo_root, cfg, result, fi, mi>>

\* A faulty variant: update_packages returns after the first machine.
ReturnAfterFirstMachine ==
    /\ Exit(0)
    /\ UNCHANGED <<mi, pi, to_install>>

\* The machine loop goes on with the next machine, or main returns.
NextMachine ==
    IF mi < Len(cfg.machines)
    THEN /\ mi' = mi + 1
         /\ pi' = 1
         /\ to_install' = <<>>
         /\ pc' = Stage(result, 1, cfg.skip_check)
         /\ UNCHANGED exit_status
    ELSE /\ Exit(0)
         /\ UNCHANGED <<mi, pi, to_install>>

\* A faulty variant: the empty list is not special.
InstallsAlways(pkg_paths) == FALSE

\* Whether install_packages returns without a command.
NothingToInstall(pkg_paths) == pkg_paths = <<>>

\* install_packages for the machine's to_install list.
InstallPackages ==
    /\ pc = "install"
    /\ IF NothingToInstall(to_install)
       THEN /\ NextMachine
            /\ UNCHANGED ops
       ELSE \E rc \in RunCodes :
              /\ ops' = Append(ops, Op("install", mi, 0, cfg.machines[mi], Join(to_install, <<" ">>), rc))
              /\ IF CheckRaises(rc)
                 THEN /\ Exit(1)
                      /\ UNCHANGED <<mi, pi, to_install>>
                 ELSE NextMachine
    /\ UNCHANGED <<args, fs, docker, current, repo_root, cfg, result, fi>>

Next ==
    \/ FromArgs
    \/ SearchStep
    \/ Validate
    \/ BuildFolder
    \/ GlobFolder
    \/ CheckInstalled
    \/ CopyPackage
    \/ InstallPackages

\* ------------------------------------------------------------ inputs

\* The line endings a captured line can have: plain, or the terminal's of
\* "docker run -it".
LF == <<"\n">>
CRLF == <<"\r", "\n">>

\* Lines of a container run: an announced package, one without "_" in its
\* name, the trace "set -x" prints of the announcing echo, any other output,
\* and the literal cut short or with nothing after it.
LineA == PKG_FILE \o <<"a", "_", "1", ".", "d", "e", "b">>
LineB == PKG_FILE \o <<"b", ".", "d", "e", "b">>
LineTrace == <<"+", " ", "e", "c", "h", "o", " ">> \o LineA
LineNoise == <<"f", "o", "o">>
LineCut == <<"P", "K", "G", "_", "F", "I", "L", "E", " ", "x">>

\* FOLDER arguments.
FolderA == <<"A">>
FolderB == <<"B">>
FolderList(n) == [i \in 1..n |-> IF i % 2 = 1 THEN FolderA ELSE FolderB]

\* --machines values: the predefined set, and a literal list of two hosts.
MachinesSingle == <<"s", "i", "n", "g", "l", "e">>
MachinesPair == <<"h", "1", ",", "h", "2">>

\* Container runs: a failed build, and builds announcing none, one, one.
RunFailed == [rc |-> 1, lines |-> <<LineNoise>>]
RunNone == [rc |-> 0, lines |-> <<LineNoise>>]
RunA == [rc |-> 0, lines |-> <<LineTrace, LineA>>]
RunB == [rc |-> 0, lines |-> <<LineB, LineNoise>>]
RunSet == {RunFailed, RunNone, RunA, RunB}

\* Directory listings of a folder, for --skip-package-build.
FileA == <<"a", "_", "1", ".", "d", "e", "b">>
FileB == <<"b", ".", "d", "e", "b">>
FileOther == <<"d", "e", "b", "i", "a", "n">>
Listings == {<<>>, <<FileOther>>, <<FileA>>, <<FileB, FileOther, FileA>>}

\* The directory d levels below the file system's root.
Dir(d) == [i \in 1..d |-> <<"d">>]

\* A file system: the working directory, the directories that hold ".git",
\* the files of each folder.
Fs(cwd, git, files) == [cwd |-> cwd, git |-> git, files |-> files]

BaseFiles == [f \in {FolderA, FolderB} |-> <<FileA>>]
BaseFs == Fs(Dir(2), {Dir(1)}, BaseFiles)

BaseArgs ==
    [repository_root |-> Some(<<"/", "r">>),
     docker_image |-> Some(<<"i">>),
     machines |-> Some(MachinesSingle),
     prefix |-> <<>>,
     folders |-> FolderList(1),
     skip_package_build |-> FALSE,
     skip_install_check |-> TRUE]

\* The environment of a run whose containers print `runs`.
Docker(eol, runs) == [eol |-> eol, runs |-> runs]
BaseDocker == Docker(LF, <<RunA>>)

Input(a, f, d) == [args |-> a, fs |-> f, docker |-> d]

\* Runs that take every branch of the program once.
CoverInputs ==
    {Input(BaseArgs, BaseFs, BaseDocker),
     Input([BaseArgs EXCEPT !.docker_image = None], BaseFs, BaseDocker),
     Input([BaseArgs EXCEPT !.machines = None], BaseFs, BaseDocker),
     Input([BaseArgs EXCEPT !.repository_root = None], BaseFs, BaseDocker),
     Input([BaseArgs EXCEPT !.repository_root = None], Fs(Dir(1), {}, BaseFiles), BaseDocker),
     Input([BaseArgs EXCEPT !.skip_package_build = TRUE], BaseFs, BaseDocker),
     Input([BaseArgs EXCEPT !.skip_install_check = FALSE], BaseFs, BaseDocker),
     Input(BaseArgs, BaseFs, Docker(LF, <<RunFailed>>))}

\* Spec: every way the configuration can be given or missing ...
ConfigInputs ==
    {Input([BaseArgs EXCEPT !.repository_root = r, !.docker_image = d, !.machines = m], f, BaseDocker) :
        r \in {None, Some(<<"/", "r">>)},
        d \in {None, Some(<<"i">>)},
        m \in {None, Some(MachinesSingle), Some(MachinesPair)},
        f \in {BaseFs, Fs(Dir(2), {Dir(2), Dir(0)}, BaseFiles), Fs(Dir(2), {}, BaseFiles)}}

\* ... and, for one or two machines, every outcome of the builds of up to
\* MaxFolders folders, or every listing of one or two folders.
BuildInputs ==
    UNION {{Input([BaseArgs EXCEPT !.machines = m, !.folders = FolderList(n), !.skip_install_check = sc],
                  BaseFs, Docker(LF, runs)) :
              runs \in [1..n -> RunSet]} :
           m \in {Some(MachinesSingle), Some(MachinesPair)},
           n \in 1..MaxFolders,
           sc \in BOOLEAN}

GlobInputs ==
    {Input([BaseArgs EXCEPT !.machines = m, !.folders = FolderList(n), !.skip_install_check = sc,
                            !.skip_package_build = TRUE],
           Fs(Dir(2), {Dir(1)}, files), BaseDocker) :
        m \in {Some(MachinesSingle), Some(MachinesPair)},
        n \in {1, 2},
        sc \in BOOLEAN,
        files \in [{FolderA, FolderB} -> Listings]}

RunInputs == ConfigInputs \cup BuildInputs \cup GlobInputs

\* SpecRoot: every working directory down to MaxDepth, ".git" in any of the
\* directories above it and in itself.
RootInputs ==
    UNION {{Input([BaseArgs EXCEPT !.repository_root = None], Fs(Dir(d), git, BaseFiles), BaseDocker) :
              git \in SUBSET {Dir(k) : k \in 0..d}} :
           d \in 0..MaxDepth}

\* SpecMachines: every --machines value of up to MaxLen characters of a host
\* letter and commas, and the predefined set's name, with and without a prefix.
RECURSIVE Texts(_, _)
Texts(alphabet, n) ==
    IF n = 0 THEN {<<>>}
    ELSE Texts(alphabet, n - 1)
         \cup {Append(t, c) : t \in Texts(alphabet, n - 1), c \in alphabet}

MachinesInputs ==
    {Input([BaseArgs EXCEPT !.machines = Some(m), !.prefix = p], BaseFs, BaseDocker) :
        m \in Texts({"a", ","}, MaxLen) \cup {MachinesSingle},
        p \in {<<>>, <<"p">>}}

\* SpecCollect: a folder whose container prints up to MaxLines lines, ended
\* either way, alone or followed by a second folder.
RECURSIVE Outputs(_, _)
Outputs(lines, n) ==
    IF n = 0 THEN {<<>>}
    ELSE Outputs(lines, n - 1)
         \cup {Append(o, l) : o \in Outputs(lines, n - 1), l \in lines}

CollectLines == {LineA, LineB, LineTrace, LineNoise, LineCut, PKG_FILE}

CollectInputs ==
    {Input([BaseArgs EXCEPT !.folders = FolderList(Len(more) + 1)], BaseFs,
           Docker(eol, <<[rc |-> 0, lines |-> out]>> \o more)) :
        out \in Outputs(CollectLines, MaxLines),
        more \in {<<>>, <<RunNone>>, <<RunA>>, <<RunB>>},
        eol \in {LF, CRLF}}

\* ------------------------------------------------------------ specifications

\* main() is entered with the parsed arguments; nothing has run yet.
InitWith(inputs) ==
    /\ \E x \in inputs :
         /\ args = x.args
         /\ fs = x.fs
         /\ docker = x.docker
    /\ pc = "from_args"
    /\ current = <<>>
    /\ repo_root = <<>>
    /\ cfg = NoCfg
    /\ result = <<>>
    /\ fi = 0
    /\ mi = 0
    /\ pi = 0
    /\ to_install = <<>>
    /\ ops = <<>>
    /\ exit_status = 0

Init == InitWith(RunInputs)
Spec == Init /\ [][Next]_vars

InitRoot == InitWith(RootInputs \cup CoverInputs)
\* The search touches only the local file system: each level of it is taken.
SpecRoot == InitRoot /\ [][Next]_vars /\ WF_vars(SearchStep)

\* from_args runs no external command: each of its steps is taken.
InitConfig == InitWith(ConfigInputs \cup CoverInputs)
SpecConfig ==
    InitConfig /\ [][Next]_vars
    /\ WF_vars(FromArgs) /\ WF_vars(SearchStep) /\ WF_vars(Validate)

InitMachines == InitWith(MachinesInputs \cup CoverInputs)
SpecMachines == InitMachines /\ [][Next]_vars

InitCollect == InitWith(CollectInputs \cup CoverInputs)
SpecCollect == InitCollect /\ [][Next]_vars

\* ------------------------------------------------------------ vocabulary of the claims

Exited == pc = "exited"
Failed == Exited /\ exit_status # 0
Succeeded == Exited /\ exit_status = 0

\* The positions of the commands of one kind, and of one kind for one
\* machine and package.
OpsOfKind(kind) == {i \in 1..Len(ops) : ops[i].op = kind}
OpsAt(kind, m, p) == {i \in OpsOfKind(kind) : ops[i].mi = m /\ ops[i].pi = p}

\* A remote command, as opposed to a container build.
IsRemote(o) == o.op \in {"check", "copy", "install"}

\* The file name of an artifact: the last component of its path.
FileName(path) == path[Len(path)]

\* The part of a file name before its first "_", all of it when it has none.
DerivedName(f) ==
    LET k == CHOOSE k \in 0..Len(f) :
                 /\ \A j \in 1..k : f[j] # "_"
                 /\ k = Len(f) \/ f[k + 1] = "_"
    IN  [j \in 1..k |-> f[j]]

\* Machine m's package p has been dealt with: update_packages has moved past it.
Handled(m, p) == m < mi \/ (m = mi /\ p < pi)

\* The file names copied to machine m, in the order of the copies.
CopiedNames(m) ==
    LET c == SelectSeq(ops, LAMBDA o : o.op = "copy" /\ o.mi = m /\ o.rc = 0)
    IN  [i \in 1..Len(c) |-> FileName(c[i].arg)]

\* The package positions copied to machine m, in the order of the copies.
CopiedPositions(m) ==
    LET c == SelectSeq(ops, LAMBDA o : o.op = "copy" /\ o.mi = m /\ o.rc = 0)
    IN  [i \in 1..Len(c) |-> c[i].pi]

\* Names joined by single spaces.
RECURSIVE SpaceJoined(_)
SpaceJoined(names) ==
    IF names = <<>> THEN <<>>
    ELSE IF Len(names) = 1 THEN names[1]
    ELSE names[1] \o <<" ">> \o SpaceJoined(Tail(names))

\* ------------------------------------------------------------ C1

\* C1: for every machine and artifact update_packages has dealt with: with
\* skip-install-check no query is issued at all and the artifact is copied;
\* without it exactly one query is issued, for the artifact's derived name,
\* and the artifact is copied if and only if the query returned 0.  What has
\* been copied to the machine in hand is its install batch, in that order.  A
\* query returning 1 does not end the run: the package is passed over and the
\* loop goes on.
C1_InstallDecision ==
    mi >= 1 =>
      /\ cfg.skip_check => OpsOfKind("check") = {}
      /\ \A m \in 1..mi : \A p \in 1..Len(result) :
           Handled(m, p) =>
             LET checks == OpsAt("check", m, p)
                 copies == OpsAt("copy", m, p)
             IN  /\ Cardinality(copies) <= 1
                 /\ \A i \in copies :
                      /\ ops[i].rc = 0
                      /\ ops[i].arg = result[p]
                      /\ ops[i].machine = cfg.machines[m]
                 /\ IF cfg.skip_check
                    THEN Cardinality(copies) = 1
                    ELSE /\ Cardinality(checks) = 1
                         /\ \A i \in checks :
                              /\ ops[i].arg = DerivedName(FileName(result[p]))
                              /\ ops[i].machine = cfg.machines[m]
                              /\ ops[i].rc = 0 <=> copies # {}
                              /\ \A j \in copies : i < j
      /\ to_install = CopiedNames(mi)
      /\ \A i \in OpsOfKind("check") :
           ops[i].rc = 1 =>
             /\ ~(Failed /\ i = Len(ops))
             /\ Handled(ops[i].mi, ops[i].pi)
             /\ OpsAt("copy", ops[i].mi, ops[i].pi) = {}

\* Without skip-install-check, a package with "_" in its name was found not
\* installed on the first machine, and a package was copied to the second.
C1_Witness ==
    /\ ~cfg.skip_check
    /\ \E i, j \in 1..Len(ops) :
         /\ i < j
         /\ ops[i].op = "check" /\ ops[i].rc = 1 /\ ops[i].mi = 1
         /\ ops[i].arg = <<"a">>
         /\ ops[j].op = "copy" /\ ops[j].rc = 0 /\ ops[j].mi = 2

\* ------------------------------------------------------------ C2

\* The machines update_packages is through with.
Completed(m) == m < mi \/ (m = mi /\ Succeeded)

\* C2: for every machine update_packages is through with: no install command
\* was issued if nothing was copied to it; otherwise exactly one was, it names
\* exactly the copied files joined by spaces, and those are the copied
\* artifacts' names in collection order.
C2_InstallBatch ==
    \A m \in 1..mi :
      Completed(m) =>
        LET installs == OpsAt("install", m, 0)
            positions == CopiedPositions(m)
        IN  /\ \A i \in 1..Len(positions) - 1 : positions[i] < positions[i + 1]
            /\ CopiedNames(m) = [i \in 1..Len(positions) |-> FileName(result[positions[i]])]
            /\ IF CopiedNames(m) = <<>>
               THEN installs = {}
               ELSE /\ Cardinality(installs) = 1
                    /\ \A i \in installs :
                         /\ ops[i].arg = SpaceJoined(CopiedNames(m))
                         /\ ops[i].machine = cfg.machines[m]
                         /\ ops[i].rc = 0

\* One machine is through with two files in one install command, another
\* with none and no install command.
C2_Witness ==
    \E m, n \in 1..mi :
      /\ Completed(m) /\ Completed(n)
      /\ Len(CopiedNames(m)) = 2
      /\ OpsAt("install", m, 0) # {}
      /\ CopiedNames(n) = <<>>
      /\ OpsAt("install", n, 0) = {}

\* ------------------------------------------------------------ C3

\* C3: a query returning 0 means installed (the copy follows), one returning 1
\* means not installed and is no error, and a query returning anything else
\* raises: it is the last command of the run, which failed.
C3_TriState ==
    \A i \in OpsOfKind("check") :
      CASE ops[i].rc = 0 -> ~(Failed /\ i = Len(ops))
        [] ops[i].rc = 1 -> ~(Failed /\ i = Len(ops))
        [] OTHER -> Failed /\ i = Len(ops)

\* ------------------------------------------------------------ C4

\* A remote command that failed: a copy or an install command with a non-zero
\* status, a query with a status other than 0 and 1.
IsFailure(o) ==
    \/ o.op \in {"copy", "install"} /\ o.rc # 0
    \/ o.op = "check" /\ o.rc \notin {0, 1}

\* C4: a failed remote command is the last command of the run: nothing is
\* issued after it, for this machine or a later one, what was copied is not
\* installed, and the run ends with a non-zero exit status.
C4_FailFast ==
    \A i \in 1..Len(ops) :
      IsFailure(ops[i]) =>
        /\ i = Len(ops)
        /\ Exited => exit_status # 0

\* ------------------------------------------------------------ C5

\* C5: a container build that exits non-zero is the last command of the run:
\* no later folder is built, update_packages is never entered with a partial
\* list, no remote command is issued, and the run has failed.
C5_BuildFailureFatal ==
    \A i \in OpsOfKind("build") :
      ops[i].rc # 0 =>
        /\ i = Len(ops)
        /\ Failed
        /\ mi = 0
        /\ \A j \in 1..Len(ops) : ~IsRemote(ops[j])

\* The second folder's build failed after the first had produced a package.
C5_Witness ==
    /\ Len(ops) = 2
    /\ ops[1].op = "build" /\ ops[1].rc = 0
    /\ ops[2].op = "build" /\ ops[2].rc # 0
    /\ result # <<>>

\* ------------------------------------------------------------ C6

\* The directories from the working directory up to the root.
PathToRoot == {SubSeq(fs.cwd, 1, k) : k \in 0..Len(fs.cwd)}

\* The configuration cannot be built: no machines, no docker image, or a
\* root to be searched for and ".git" nowhere on the way up.
ConfigurationError ==
    \/ ~args.machines.given
    \/ ~args.docker_image.given
    \/ ~args.repository_root.given /\ PathToRoot \cap fs.git = {}

\* C6: with a configuration error no external command is ever issued, run()
\* is never entered, an exit is a failure, and the process does exit.
C6_ConfigErrorNoSideEffect ==
    /\ [](ConfigurationError =>
            /\ ops = <<>>
            /\ pc \in {"from_args", "search", "validate", "exited"}
            /\ Exited => exit_status # 0)
    /\ (ConfigurationError ~> Failed)

\* The run ended for a missing docker image, after a root was found by search.
C6_Witness ==
    /\ ~args.docker_image.given
    /\ args.machines.given
    /\ ~args.repository_root.given
    /\ repo_root \in fs.git
    /\ Failed

\* ------------------------------------------------------------ C7

\* The nearest directory with ".git" on the way up from the working directory.
NearestRoot ==
    CHOOSE d \in PathToRoot \cap fs.git :
        \A e \in PathToRoot \cap fs.git : Len(e) <= Len(d)

Announces(line) ==
    /\ Len(line) >= 9
    /\ <<line[1], line[2], line[3], line[4], line[5], line[6], line[7], line[8], line[9]>>
         = <<"P", "K", "G", "_", "F", "I", "L", "E", "=">>

\* The announced file name: the rest of the line.
Announced(line) == [j \in 1..Len(line) - 9 |-> line[j + 9]]

\* A folder's absolute path, and a file name joined to it (joining the empty
\* name leaves the folder's path).
FolderPath(i) == Append(repo_root, args.folders[i])
JoinedTo(dir, name) == IF name = <<>> THEN dir ELSE Append(dir, name)

\* The artifacts of the first n folders: for each folder in turn, in the order
\* printed, every announced name joined to the folder's path.
RECURSIVE ArtifactsOfLines(_, _)
ArtifactsOfLines(dir, lines) ==
    IF lines = <<>> THEN <<>>
    ELSE (IF Announces(Head(lines)) THEN <<JoinedTo(dir, Announced(Head(lines)))>> ELSE <<>>)
         \o ArtifactsOfLines(dir, Tail(lines))

RECURSIVE ArtifactsOfFolders(_)
ArtifactsOfFolders(n) ==
    IF n = 0 THEN <<>>
    ELSE ArtifactsOfFolders(n - 1) \o ArtifactsOfLines(FolderPath(n), docker.runs[n].lines)

\* How many folders have been collected.
Collected ==
    IF pc = "collect" THEN fi - 1
    ELSE IF mi >= 1 THEN Len(args.folders)
    ELSE 0

\* C8: when building, the collected list is at every point the artifacts of
\* the folders collected so far, and update_packages starts with the
\* artifacts of all folders.
C8_CollectedArtifacts ==
    (~args.skip_package_build /\ (pc = "collect" \/ mi >= 1)) =>
        result = ArtifactsOfFolders(Collected)

\* Both folders are collected, from output with terminal line endings: the
\* first announced the same file twice, the second printed a trace line.
C8_Witness ==
    /\ ~args.skip_package_build
    /\ mi >= 1
    /\ Len(args.folders) = 2
    /\ docker.eol = <<"\r", "\n">>
    /\ Len(docker.runs[1].lines) = 2
    /\ Len(result) >= 3
    /\ result[1] = result[2]
    /\ \E l \in {docker.runs[2].lines[k] : k \in 1..Len(docker.runs[2].lines)} :
         l[1] = "+"

\* ------------------------------------------------------------ C9

\* Segments joined by commas.
RECURSIVE CommaJoined(_)
CommaJoined(segs) ==
    IF Len(segs) = 1 THEN segs[1]
    ELSE segs[1] \o <<",">> \o CommaJoined(Tail(segs))

\* The list is the value split on ",": its elements hold no comma and give the
\* value back when joined by commas.
IsSplitOf(segs, value) ==
    /\ Len(segs) >= 1
    /\ \A i \in 1..Len(segs) : \A j \in 1..Len(segs[i]) : segs[i][j] # ","
    /\ CommaJoined(segs) = value

\* Each element of the list is the prefix followed by the host of the other.
IsPrefixed(machines, prefix, hosts) ==
    /\ Len(machines) = Len(hosts)
    /\ \A i \in 1..Len(hosts) : machines[i] = prefix \o hosts[i]

\* C9: the machines of the Configuration are the hosts of the predefined set
\* when --machines names one, and otherwise the value split on ","; either
\* way each with --prefix in front.
C9_MachineResolution ==
    pc \notin {"from_args", "search", "validate", "exited"} =>
        IF args.machines.value = <<"s", "i", "n", "g", "l", "e">>
        THEN IsPrefixed(cfg.machines, args.prefix, << <<"b", "s", "b", "t", "1">> >>)
        ELSE \E n \in 1..Len(args.machines.value) + 1 :
               /\ Len(cfg.machines) = n
               /\ LET hosts == [i \in 1..n |->
                                  SubSeq(cfg.machines[i], Len(args.prefix) + 1, Len(cfg.machines[i]))]
                  IN  /\ IsPrefixed(cfg.machines, args.prefix, hosts)
                      /\ IsSplitOf(hosts, args.machines.value)

\* A prefixed literal list of three hosts, the first of them empty.
C9_Witness ==
    /\ pc = "collect"
    /\ args.prefix = <<"p">>
    /\ Len(cfg.machines) = 3
    /\ cfg.machines[1] = <<"p">>
    /\ cfg.machines[2] = <<"p", "a">>

\* ------------------------------------------------------------ C10

\* Where a remote command stands in the handling of its machine: the query of
\* package p, its copy, the next package, ..., the install command last.
Rank(o) ==
    IF o.op = "install" THEN 2 * Len(result) + 2
    ELSE 2 * o.pi + (IF o.op = "copy" THEN 1 ELSE 0)

\* Command a is due before command b: on an earlier machine, or on the same
\* machine and earlier in its handling.
DueBefore(a, b) == a.mi < b.mi \/ (a.mi = b.mi /\ Rank(a) < Rank(b))

\* C10: in a run that has not failed, the builds come first, one per folder in
\* the folders' order and all of them before any remote command; the remote
\* commands follow machine by machine in the configured order, on each machine
\* package by package, query before copy, the one install command last.  A
\* finished run with skip-install-check and N >= 1 artifacts on M machines has
\* issued N*M copies and M install commands.
C10_StrictOrder ==
    ~Failed =>
      /\ \A i, j \in 1..Len(ops) :
           i < j =>
             /\ ops[j].op = "build" => (ops[i].op = "build" /\ ops[i].pi < ops[j].pi)
             /\ (IsRemote(ops[i]) /\ IsRemote(ops[j])) => DueBefore(ops[i], ops[j])
      /\ (\E i \in 1..Len(ops) : IsRemote(ops[i])) /\ ~args.skip_package_build =>
           {ops[i].pi : i \in OpsOfKind("build")} = 1..Len(args.folders)
      /\ \A i \in 1..Len(ops) :
           IsRemote(ops[i]) => ops[i].machine = cfg.machines[ops[i].mi]
      /\ (Succeeded /\ cfg.skip_check /\ Len(result) >= 1) =>
           /\ Cardinality(OpsOfKind("copy")) = Len(result) * Len(cfg.machines)
           /\ Cardinality(OpsOfKind("install")) = Len(cfg.machines)

\* Two folders built one package each and two machines were updated without
\* the check: four copies, two install commands.
C10_Witness ==
    /\ Succeeded
    /\ cfg.skip_check
    /\ Cardinality(OpsOfKind("build")) = 2
    /\ Len(result) = 2
    /\ Len(cfg.machines) = 2
    /\ Cardinality(OpsOfKind("copy")) = 4
    /\ Cardinality(OpsOfKind("install")) = 2

====
